---- MODULE Spec2Model ----
(***************************************************************************)
(* Countdown primitive (TimerData) and timer coordinator (TimerManager)    *)
(* of focotimer.                                                           *)
(*                                                                         *)
(* Time is discrete; one unit is 100 ms.  The Go runtime timers created    *)
(* by time.AfterFunc and the goroutines they spawn are part of the state:  *)
(* every StartTimer() appends one runtime timer to the primitive's Timer   *)
(* sequence, the last element being the *time.Timer the field points at.   *)
(* A runtime timer is "active" until it is stopped or its deadline is      *)
(* reached; once "fired" its function runs in a goroutine of its own, in   *)
(* two steps: the critical section (FireLock), then the handler call       *)
(* (FireCall), made after the primitive's lock is released.                *)
(***************************************************************************)
EXTENDS Integers, Sequences, FiniteSets, TLC

\* ------------------------------------------------------------- bounds ----
MaxTime         == 3    \* clock horizon, in units
MaxInitDuration == 2    \* constructed durations are 0 .. MaxInitDuration
MaxCalls        == 3    \* calls of the coordinator's methods in one run
MaxTickTime     == 22   \* clock horizon of the runs that fill a buffer
MaxCallers      == 2    \* callers of Shutdown()
MaxSuffix       == 2    \* paths base.<pid> .. base.<pid>.<MaxSuffix> may be taken
MaxAllocs       == 2    \* allocations in one run
MaxLockCalls    == 2    \* concurrent calls in the runs that follow the mutexes

\* -------------------------------------------------- program constants ----
Step          == 50     \* 5 * time.Second
TickInterval  == 2      \* 200 * time.Millisecond
BreakDefault  == 600    \* 1 * time.Minute
SubBuffer     == 10     \* make(chan time.Duration, 10)
MaxAttempts   == 1000   \* for i := 0; i < 1000; i++

Nil == -1               \* zero time.Time, nil pointer

VARIABLES
    now,         \* wall clock
    tickC,       \* ticker.C of the broadcaster holds a tick
    heap,        \* every TimerData ever allocated
    Timer,       \* TimerManager.Timer: index into heap
    subs,        \* TimerManager.subs: sequence of channel buffers
    lastValue,   \* TimerManager.lastValue
    doneCh,      \* TimerManager.doneCh: a channel id
    closed,      \* channel ids that have been closed
    bpc,         \* broadcaster position: "wait", "elapsed", "remaining"
    bT,          \* broadcaster: receiver of the Remaining() call in flight
    elapsed,     \* broadcaster: local of Remaining()
    remaining,   \* broadcaster: local of broadcast()
    sampledDone, \* history: the tick under way sampled a completed primitive
    constructed, \* history: the duration passed to NewTimerManager
    log,         \* history: the calls of the coordinator's methods, each
                 \* with the duration of the current primitive before it
    \* --- the two mutexes, one step per Lock()/Unlock()
    mu,          \* TimerManager.mu: the goroutine holding it, or Nil
    tmu,         \* TimerData.mu of every primitive: its holder, or Nil
    cur,         \* TimerManager.Timer, as an index into tmu
    thr,         \* goroutines (the broadcaster, one per call, one per
                 \* timer function): what is left for each to do, and the
                 \* primitive it works on
    ncalls,      \* calls made so far
    nticks,      \* ticks taken by the broadcaster so far
    \* --- the command pipe and its dispatch loop (package polybar)
    lpc,         \* handle_cmds: "idle" (not started), "check", "open",
                 \* "blocked" (inside os.OpenFile), "backoff", "read",
                 \* "debounce", "stopped"
    stopping,    \* the stopping channel is closed
    fifo,        \* a named pipe exists at fifoPipePath
    pathSet,     \* fifoPipePath /= ""
    wr,          \* the external writer: "none", "waiting" (inside its
                 \* open), "open"
    pipe,        \* lines written and not yet read
    consumed,    \* history: lines read by the loop, in order
    cb,          \* guiToggleCallback /= nil
    guiCalls,    \* history: calls of the toggle callback
    started,     \* startOnce is used up
    wg,          \* counter of the WaitGroup
    stopOnce,    \* "new", "running", "done"
    spc,         \* position of each caller of Shutdown()
    closes,      \* history: close(stopping) executed
    removes,     \* history: os.Remove(fifoPipePath) executed
    exitAt,      \* history: where the loop was when it returned
    handles,     \* read handles of the pipe the loop holds open
    lateOpens,   \* history: opens begun after the stop signal
    \* --- the allocator of the pipe's path
    fs,          \* what is at base.<pid> (index 0) and base.<pid>.<i>:
                 \* "absent", "file" (no named pipe), "fifo" (named pipe,
                 \* no reader), "fifoRead" (named pipe held by a reader)
    rest,        \* what is at every candidate path beyond those of fs
    dirOK,       \* a pipe can be made in the directory
    fifoPipePath,\* the recorded path, as an index into fs, Nil for ""
    paths        \* history: what each allocation returned, Nil for an error

\* the coordinator, its primitives and its broadcaster
coreVars == <<now, tickC, heap, Timer, subs, lastValue, doneCh, closed,
              bpc, bT, elapsed, remaining, sampledDone, constructed, log>>

\* everything outside the coordinator
lockVars == <<mu, tmu, cur, thr, ncalls, nticks>>

pipeVars == <<lpc, stopping, fifo, pathSet, wr, pipe, consumed, cb, guiCalls,
              started, wg, stopOnce, spc, closes, removes, exitAt,
              handles, lateOpens>>

allocVars == <<fs, rest, dirOK, fifoPipePath, paths>>

ext == <<lockVars, pipeVars, allocVars>>

vars == <<coreVars, ext>>

\* nothing outside the coordinator has happened yet
\* no mutex held, the broadcaster between ticks, nobody calling
LockIdle ==
    /\ mu = Nil
    /\ tmu = <<Nil>>
    /\ cur = 1
    /\ thr = <<[prog |-> <<>>, p |-> Nil]>>
    /\ ncalls = 0
    /\ nticks = 0

\* package polybar as loaded: no path, no loop, nothing stopped
PipeIdle ==
    /\ lpc = "idle"
    /\ stopping = FALSE
    /\ fifo = FALSE
    /\ pathSet = FALSE
    /\ wr = "none"
    /\ pipe = <<>>
    /\ consumed = <<>>
    /\ cb = FALSE
    /\ guiCalls = 0
    /\ started = FALSE
    /\ wg = 0
    /\ stopOnce = "new"
    /\ spc = [c \in 1..MaxCallers |-> "idle"]
    /\ closes = 0
    /\ removes = 0
    /\ exitAt = "none"
    /\ handles = 0
    /\ lateOpens = 0

\* an empty directory, no path recorded
AllocIdle ==
    /\ fs = [i \in 0..MaxSuffix |-> "absent"]
    /\ rest = "absent"
    /\ dirOK = TRUE
    /\ fifoPipePath = Nil
    /\ paths = <<>>

ExtIdle == LockIdle /\ PipeIdle /\ AllocIdle

\* ------------------------------------------------------ TimerData --------
NewTimer(d) ==
    [Duration      |-> d,
     BreakDuration |-> BreakDefault,
     IsComplete    |-> FALSE,
     StartedAt     |-> Nil,
     Handler       |-> "nil",
     Timer         |-> <<>>]

\* time.Timer.Stop(): an active timer is cancelled, anything else is left alone
TimerStop(rt) ==
    IF rt.st = "active" THEN [rt EXCEPT !.st = "stopped"] ELSE rt

\* the `if t.Timer != nil { t.Timer.Stop() }` of StartTimer and StopTimer
StopPending(t) ==
    IF t.Timer /= <<>>
    THEN [t EXCEPT !.Timer[Len(t.Timer)] = TimerStop(@)]
    ELSE t

\* time.AfterFunc(d, f) at time `at`
AfterFunc(d, at) ==
    [when |-> at + d, d |-> d, st |-> "active", handler |-> "nil", calls |-> 0,
     stop |-> "no", closedCh |-> Nil]

StartTimer(t, at) ==
    LET s == StopPending(t) IN
    [s EXCEPT !.StartedAt  = at,
              !.IsComplete = FALSE,
              !.Timer      = Append(s.Timer, AfterFunc(s.Duration, at))]

\* mutant: the pending fire is left armed
StopTimerNoop(t) == t

\* mutant: stopping also forgets when the countdown was started
StopTimerClear(t) == [StopPending(t) EXCEPT !.StartedAt = Nil]

StopTimer(t) == StopPending(t)

\* history: a StopTimer() call that returned at time `at` is recorded in the
\* runtime timer it was aimed at, "early" when the deadline was still ahead
LogStop(t, at) ==
    IF t.Timer = <<>> THEN t
    ELSE [t EXCEPT !.Timer[Len(t.Timer)].stop =
             IF @ /= "no" THEN @
             ELSE IF at < t.Timer[Len(t.Timer)].when THEN "early" ELSE "late"]

\* mutant: the time since the start keeps counting after completion
ElapsedRunning(t, at) ==
    IF t.StartedAt = Nil THEN 0 ELSE at - t.StartedAt

Elapsed(t, at) ==
    IF t.StartedAt = Nil \/ t.IsComplete THEN 0 ELSE at - t.StartedAt

\* the part of Remaining() after the call of Elapsed()
RemainingFrom(t, e) ==
    IF t.Duration < e THEN 0 ELSE t.Duration - e

Remaining(t, at) == RemainingFrom(t, Elapsed(t, at))

\* mutant: the timer function forgets to set IsComplete
FireBodyNoFlag(t, g, at) ==
    [t EXCEPT !.Timer[g].handler = t.Handler,
              !.Timer[g].st = IF t.Handler = "nil" THEN "done" ELSE "call"]

\* the critical section of the function given to AfterFunc
FireBody(t, g, at) ==
    [t EXCEPT !.IsComplete  = TRUE,
              !.Timer[g].handler = t.Handler,
              !.Timer[g].st = IF t.Handler = "nil" THEN "done" ELSE "call"]

\* ---------------------------------------------------- TimerManager -------
Init ==
    /\ now = 0
    /\ tickC = FALSE
    /\ constructed \in 0..MaxInitDuration
    /\ heap = <<NewTimer(constructed)>>
    /\ Timer = 1
    /\ subs = <<>>
    /\ lastValue = 0
    /\ doneCh = 1
    /\ closed = {}
    /\ bpc = "wait"
    /\ bT = Nil
    /\ elapsed = 0
    /\ remaining = 0
    /\ sampledDone = FALSE
    /\ log = <<>>
    /\ ExtIdle

\* one more call of a method of the coordinator
Call(op) ==
    /\ Len(log) < MaxCalls
    /\ log' = Append(log, [op |-> op, d |-> heap[Timer].Duration])

Snapshot == lastValue

Done == doneCh

\* timerSnapshot() of the polybar front end with a coordinator installed:
\* the current Duration and Snapshot()
timerSnapshot == <<heap[Timer].Duration, Snapshot>>

Subscribe ==
    /\ Call("Subscribe")
    /\ subs' = Append(subs, <<>>)
    /\ UNCHANGED <<now, tickC, heap, Timer, lastValue, doneCh, closed,
                   bpc, bT, elapsed, remaining, sampledDone, constructed>>
    /\ UNCHANGED ext

\* the value Reset() hands to NewTimer
ResetDuration == heap[Timer].Duration

\* mutant: Reset() keeps the old channel
ResetDoneKeep(old, fresh) == old

\* `t.doneCh = make(chan struct{})`: the old channel is dropped for a new one
ResetDone(old, fresh) == fresh

\* mutant: Reset() starts again with no subscribers
ResetDropSubs ==
    /\ Call("Reset")
    /\ heap' = Append(heap, NewTimer(ResetDuration))
    /\ Timer' = Len(heap) + 1
    /\ lastValue' = ResetDuration
    /\ doneCh' = ResetDone(doneCh, Len(heap) + 1)
    /\ subs' = <<>>
    /\ UNCHANGED <<now, tickC, closed, bpc, bT, elapsed, remaining,
                   sampledDone, constructed>>
    /\ UNCHANGED ext

Reset ==
    /\ Call("Reset")
    /\ heap' = Append(heap, NewTimer(ResetDuration))
    /\ Timer' = Len(heap) + 1
    /\ lastValue' = ResetDuration
    /\ doneCh' = ResetDone(doneCh, Len(heap) + 1)
    /\ UNCHANGED <<now, tickC, subs, closed, bpc, bT, elapsed, remaining,
                   sampledDone, constructed>>
    /\ UNCHANGED ext

\* tm.Start() as the coordinator sees it, whoever calls
ManagerStart ==
    /\ Timer /= Nil
    /\ Call("Start")
    /\ heap' = [heap EXCEPT ![Timer] =
                   StartTimer([@ EXCEPT !.Handler = "closeDone"], now)]
    /\ UNCHANGED <<now, tickC, Timer, subs, lastValue, doneCh, closed,
                   bpc, bT, elapsed, remaining, sampledDone, constructed>>

Start == ManagerStart /\ UNCHANGED ext

\* tm.Stop() as the coordinator sees it, whoever calls
ManagerStop ==
    /\ Call("Stop")
    /\ heap' = [heap EXCEPT ![Timer] = LogStop(StopTimer(@), now)]
    /\ UNCHANGED <<now, tickC, Timer, subs, lastValue, doneCh, closed,
                   bpc, bT, elapsed, remaining, sampledDone, constructed>>

Stop == ManagerStop /\ UNCHANGED ext

\* mutant: Inc() adds two steps
IncDurationTwice(d) == d + 2 * Step

IncDuration(d) == d + Step

\* mutant: Dec() subtracts without the floor
DecDurationNoFloor(d) == d - Step

DecDuration(d) == IF d > Step THEN d - Step ELSE 0

\* mutant: Inc() moves the pending fire to the new duration
ManagerIncRearm ==
    /\ Call("Inc")
    /\ heap' = [heap EXCEPT
                   ![Timer] =
                      LET t == [@ EXCEPT !.Duration = IncDuration(@)] IN
                      IF t.Timer = <<>> THEN t
                      ELSE [t EXCEPT !.Timer[Len(t.Timer)].when =
                                         t.StartedAt + t.Duration]]
    /\ UNCHANGED <<now, tickC, Timer, subs, lastValue, doneCh, closed,
                   bpc, bT, elapsed, remaining, sampledDone, constructed>>

\* tm.Inc() as the coordinator sees it, whoever calls
ManagerInc ==
    /\ Call("Inc")
    /\ heap' = [heap EXCEPT ![Timer].Duration = IncDuration(@)]
    /\ UNCHANGED <<now, tickC, Timer, subs, lastValue, doneCh, closed,
                   bpc, bT, elapsed, remaining, sampledDone, constructed>>

Inc == ManagerInc /\ UNCHANGED ext

\* mutant: Dec() recomputes the stored snapshot from the new duration
ManagerDecRefresh ==
    /\ Call("Dec")
    /\ heap' = [heap EXCEPT ![Timer].Duration = DecDuration(@)]
    /\ lastValue' = Remaining(heap'[Timer], now)
    /\ UNCHANGED <<now, tickC, Timer, subs, doneCh, closed,
                   bpc, bT, elapsed, remaining, sampledDone, constructed>>

\* tm.Dec() as the coordinator sees it, whoever calls
ManagerDec ==
    /\ Call("Dec")
    /\ heap' = [heap EXCEPT ![Timer].Duration = DecDuration(@)]
    /\ UNCHANGED <<now, tickC, Timer, subs, lastValue, doneCh, closed,
                   bpc, bT, elapsed, remaining, sampledDone, constructed>>

Dec == ManagerDec /\ UNCHANGED ext

\* mutant: the handler leaves the channel open
CloseDoneNoop(cl, ch) == cl

\* mutant: the handler closes the channels dropped by Reset() as well
CloseDoneStale(cl, ch) == cl \cup 1..ch

\* the completion handler installed by Start(): closes the current doneCh
\* unless it is closed already
CloseDone(cl, ch) == IF ch \in cl THEN cl ELSE cl \cup {ch}

\* mutant: the handler closes the channel without looking
HandlerClosesAlways(cl, ch) == ch

\* history: the channel the handler calls close() on, Nil when its select
\* finds the channel closed
HandlerCloses(cl, ch) == IF ch \in cl THEN Nil ELSE ch

\* ------------------------------------------- runtime timers, goroutines --
\* the runtime finds the deadline of an active timer reached and starts its
\* function in a new goroutine
TimerExpire(p, g) ==
    /\ heap[p].Timer[g].st = "active"
    /\ now >= heap[p].Timer[g].when
    /\ heap' = [heap EXCEPT ![p].Timer[g].st = "fired"]
    /\ UNCHANGED <<now, tickC, Timer, subs, lastValue, doneCh, closed,
                   bpc, bT, elapsed, remaining, sampledDone, constructed, log>>
    /\ UNCHANGED ext

FireLock(p, g) ==
    /\ heap[p].Timer[g].st = "fired"
    /\ heap' = [heap EXCEPT ![p] = FireBody(@, g, now)]
    /\ UNCHANGED <<now, tickC, Timer, subs, lastValue, doneCh, closed,
                   bpc, bT, elapsed, remaining, sampledDone, constructed, log>>
    /\ UNCHANGED ext

FireCall(p, g) ==
    /\ heap[p].Timer[g].st = "call"
    /\ closed' = CloseDone(closed, doneCh)
    /\ heap' = [heap EXCEPT ![p].Timer[g].st = "done",
                            ![p].Timer[g].calls = @ + 1,
                            ![p].Timer[g].closedCh =
                                HandlerCloses(closed, doneCh)]
    /\ UNCHANGED <<now, tickC, Timer, subs, lastValue, doneCh,
                   bpc, bT, elapsed, remaining, sampledDone, constructed, log>>
    /\ UNCHANGED ext

\* ------------------------------------------------------- broadcaster -----
\* non-blocking send of v to every subscriber
\* mutant: the tick's value goes to the first subscriber only
PushFirstOnly(ss, v) ==
    [i \in 1..Len(ss) |->
        IF i = 1 /\ Len(ss[i]) < SubBuffer THEN Append(ss[i], v) ELSE ss[i]]

\* mutant: a full buffer gives up its oldest value for the new one
PushDropOldest(ss, v) ==
    [i \in 1..Len(ss) |->
        IF Len(ss[i]) < SubBuffer THEN Append(ss[i], v)
                                  ELSE Append(Tail(ss[i]), v)]

Push(ss, v) ==
    [i \in 1..Len(ss) |->
        IF Len(ss[i]) < SubBuffer THEN Append(ss[i], v) ELSE ss[i]]

\* case <-ticker.C, then the Elapsed() call inside t.Timer.Remaining()
BroadcastElapsed ==
    /\ bpc = "wait"
    /\ tickC
    /\ tickC' = FALSE
    /\ bT' = Timer
    /\ elapsed' = Elapsed(heap[Timer], now)
    /\ sampledDone' = heap[Timer].IsComplete
    /\ bpc' = "elapsed"
    /\ UNCHANGED <<now, heap, Timer, subs, lastValue, doneCh, closed,
                   remaining, constructed, log>>
    /\ UNCHANGED ext

\* the rest of Remaining()
BroadcastRemaining ==
    /\ bpc = "elapsed"
    /\ remaining' = RemainingFrom(heap[bT], elapsed)
    /\ bpc' = "remaining"
    /\ UNCHANGED <<now, tickC, heap, Timer, subs, lastValue, doneCh, closed,
                   bT, elapsed, sampledDone, constructed, log>>
    /\ UNCHANGED ext

\* the critical section of broadcast()
BroadcastStore ==
    /\ bpc = "remaining"
    /\ lastValue' = remaining
    /\ subs' = Push(subs, remaining)
    /\ bpc' = "wait"
    /\ bT' = Nil
    /\ elapsed' = 0
    /\ remaining' = 0
    /\ sampledDone' = FALSE
    /\ UNCHANGED <<now, tickC, heap, Timer, doneCh, closed, constructed, log>>
    /\ UNCHANGED ext

\* ---------------------------------------------------------- the clock ----
\* Goroutine steps take no clock time at the 100 ms scale: the clock moves
\* on only when no runtime timer is due, no timer function is under way and
\* the broadcaster has dealt with its tick.
Quiescent ==
    /\ \A p \in 1..Len(heap) : \A g \in 1..Len(heap[p].Timer) :
          /\ heap[p].Timer[g].st \notin {"fired", "call"}
          /\ heap[p].Timer[g].st = "active" => now < heap[p].Timer[g].when
    /\ bpc = "wait"
    /\ ~tickC

\* time passes by one unit, up to the horizon
Clock(horizon) ==
    /\ now < horizon
    /\ Quiescent
    /\ now' = now + 1
    /\ tickC' = (tickC \/ (now + 1) % TickInterval = 0)
    /\ UNCHANGED <<heap, Timer, subs, lastValue, doneCh, closed,
                   bpc, bT, elapsed, remaining, sampledDone, constructed, log>>
    /\ UNCHANGED ext

Advance == Clock(MaxTime)

Arms == UNION {{<<p, g>> : g \in 1..Len(heap[p].Timer)} : p \in 1..Len(heap)}

Expire == \E pg \in Arms : TimerExpire(pg[1], pg[2])
Lock   == \E pg \in Arms : FireLock(pg[1], pg[2])
Handle == \E pg \in Arms : FireCall(pg[1], pg[2])

Next ==
    \/ Subscribe
    \/ Reset
    \/ Start
    \/ Stop
    \/ Inc
    \/ Dec
    \/ Expire
    \/ Lock
    \/ Handle
    \/ BroadcastElapsed
    \/ BroadcastRemaining
    \/ BroadcastStore
    \/ Advance

Spec == Init /\ [][Next]_vars

\* ------------------------------------- long runs of the broadcaster ----
\* Nobody drains the channels: enough ticks fill a subscriber's buffer.
TickAdvance == Clock(MaxTickTime)

TickNext ==
    \/ Subscribe
    \/ Inc
    \/ BroadcastElapsed
    \/ BroadcastRemaining
    \/ BroadcastStore
    \/ TickAdvance

TickSpec == Init /\ [][TickNext]_vars

\* --------------------------------- the command pipe (package polybar) ----
\* The coordinator has been handed over with SetTimerManager().  What Main()
\* does besides starting the loop (its subscription, its output ticker)
\* does not touch the pipe.

\* the lines an external writer may send
Lines == {"start", "stop", "inc", "dec", "gui", "unknown", "INC"}

\* mutant: "dec" is routed to Inc()
ControlForSwapped(cmd) ==
    CASE cmd = "start" -> "Start"
      [] cmd = "gui"   -> "gui"
      [] cmd = "inc"   -> "Inc"
      [] cmd = "dec"   -> "Inc"
      [] cmd = "stop"  -> "Stop"
      [] OTHER         -> "default"

\* mutant: the comparison ignores case
ControlForFold(cmd) ==
    CASE cmd = "start" -> "Start"
      [] cmd = "gui"   -> "gui"
      [] cmd \in {"inc", "INC"} -> "Inc"
      [] cmd = "dec"   -> "Dec"
      [] cmd = "stop"  -> "Stop"
      [] OTHER         -> "default"

\* switch cmd
ControlFor(cmd) ==
    CASE cmd = "start" -> "Start"
      [] cmd = "gui"   -> "gui"
      [] cmd = "inc"   -> "Inc"
      [] cmd = "dec"   -> "Dec"
      [] cmd = "stop"  -> "Stop"
      [] OTHER         -> "default"

\* Init() / InitWithBase(): the pipe is made and its path kept
InitPipe ==
    /\ ~pathSet
    /\ pathSet' = TRUE
    /\ fifo' = TRUE
    /\ UNCHANGED <<lpc, stopping, wr, pipe, consumed, cb, guiCalls,
                   started, wg, stopOnce, spc, closes, removes,
                   exitAt, handles, lateOpens>>
    /\ UNCHANGED <<coreVars, lockVars, allocVars>>

\* Main(): Init() if there is no path yet, then startOnce.Do
MainStartLoop ==
    /\ ~started
    /\ pathSet' = TRUE
    /\ fifo' = (fifo \/ ~pathSet)
    /\ started' = TRUE
    /\ wg' = wg + 1
    /\ lpc' = "check"
    /\ UNCHANGED <<stopping, wr, pipe, consumed, cb, guiCalls, stopOnce,
                   spc, closes, removes,
                   exitAt, handles, lateOpens>>
    /\ UNCHANGED <<coreVars, lockVars, allocVars>>

AddHandler ==
    /\ ~cb
    /\ cb' = TRUE
    /\ UNCHANGED <<lpc, stopping, fifo, pathSet, wr, pipe, consumed,
                   guiCalls, started, wg, stopOnce, spc, closes, removes,
                   exitAt, handles, lateOpens>>
    /\ UNCHANGED <<coreVars, lockVars, allocVars>>

\* an external process opens the pipe for writing; the open returns once
\* the loop has it open for reading
WriterOpen ==
    /\ fifo
    /\ wr = "none"
    /\ wr' = IF lpc = "read" THEN "open" ELSE "waiting"
    /\ UNCHANGED <<lpc, stopping, fifo, pathSet, pipe, consumed, cb,
                   guiCalls, started, wg, stopOnce, spc, closes, removes,
                   exitAt, handles, lateOpens>>
    /\ UNCHANGED <<coreVars, lockVars, allocVars>>

WriterWrite(line) ==
    /\ wr = "open"
    /\ Len(consumed) + Len(pipe) < MaxCalls
    /\ pipe' = Append(pipe, line)
    /\ UNCHANGED <<lpc, stopping, fifo, pathSet, wr, consumed, cb,
                   guiCalls, started, wg, stopOnce, spc, closes, removes,
                   exitAt, handles, lateOpens>>
    /\ UNCHANGED <<coreVars, lockVars, allocVars>>

WriterClose ==
    /\ wr = "open"
    /\ wr' = "none"
    /\ UNCHANGED <<lpc, stopping, fifo, pathSet, pipe, consumed, cb,
                   guiCalls, started, wg, stopOnce, spc, closes, removes,
                   exitAt, handles, lateOpens>>
    /\ UNCHANGED <<coreVars, lockVars, allocVars>>

\* somebody else removes the pipe file
Unlink ==
    /\ fifo
    /\ fifo' = FALSE
    /\ UNCHANGED <<lpc, stopping, pathSet, wr, pipe, consumed, cb,
                   guiCalls, started, wg, stopOnce, spc, closes, removes,
                   exitAt, handles, lateOpens>>
    /\ UNCHANGED <<coreVars, lockVars, allocVars>>

\* mutant: the loop gives up whether or not the stop signal has fired
LoopReturnAnyway(from) ==
    /\ lpc = from
    /\ lpc' = "stopped"
    /\ exitAt' = from
    /\ wg' = wg - 1
    /\ UNCHANGED <<stopping, fifo, pathSet, wr, pipe, consumed, cb,
                   guiCalls, started, stopOnce, spc, closes, removes,
                   handles, lateOpens>>
    /\ UNCHANGED <<coreVars, lockVars, allocVars>>

\* the loop's task ends: defer wg.Done()
LoopReturn(from) ==
    /\ lpc = from
    /\ stopping
    /\ lpc' = "stopped"
    /\ exitAt' = from
    /\ wg' = wg - 1
    /\ UNCHANGED <<stopping, fifo, pathSet, wr, pipe, consumed, cb,
                   guiCalls, started, stopOnce, spc, closes, removes,
                   handles, lateOpens>>
    /\ UNCHANGED <<coreVars, lockVars, allocVars>>

\* select { case <-stopping: return; default: }
LoopCheckStop == LoopReturn("check")

LoopCheckGo ==
    /\ lpc = "check"
    /\ ~stopping
    /\ lpc' = "open"
    /\ UNCHANGED <<stopping, fifo, pathSet, wr, pipe, consumed, cb,
                   guiCalls, started, wg, stopOnce, spc, closes, removes,
                   exitAt, handles, lateOpens>>
    /\ UNCHANGED <<coreVars, lockVars, allocVars>>

\* os.OpenFile(fifoPipePath, os.O_RDONLY, ...) is entered: it fails at once
\* when there is no file, and otherwise waits for a writer
LoopOpen ==
    /\ lpc = "open"
    /\ lpc' = IF fifo THEN "blocked" ELSE "backoff"
    /\ lateOpens' = IF stopping THEN lateOpens + 1 ELSE lateOpens
    /\ UNCHANGED <<stopping, fifo, pathSet, wr, pipe, consumed, cb,
                   guiCalls, started, wg, stopOnce, spc, closes, removes,
                   exitAt, handles>>
    /\ UNCHANGED <<coreVars, lockVars, allocVars>>

\* os.OpenFile returns: a writer has opened the other end
LoopOpened ==
    /\ lpc = "blocked"
    /\ wr = "waiting"
    /\ wr' = "open"
    /\ lpc' = "read"
    /\ handles' = handles + 1
    /\ UNCHANGED <<stopping, fifo, pathSet, pipe, consumed, cb, guiCalls,
                   started, wg, stopOnce, spc, closes, removes, exitAt,
                   lateOpens>>
    /\ UNCHANGED <<coreVars, lockVars, allocVars>>

\* select { case <-stopping: return; case <-time.After(time.Second): continue }
LoopBackoffStop == LoopReturn("backoff")

\* mutant: the retry goes straight to the open, past the stop check
LoopBackoffRetrySkip ==
    /\ lpc = "backoff"
    /\ lpc' = "open"
    /\ UNCHANGED <<stopping, fifo, pathSet, wr, pipe, consumed, cb,
                   guiCalls, started, wg, stopOnce, spc, closes, removes,
                   exitAt, handles, lateOpens>>
    /\ UNCHANGED <<coreVars, lockVars, allocVars>>

LoopBackoffRetry ==
    /\ lpc = "backoff"
    /\ lpc' = "check"
    /\ UNCHANGED <<stopping, fifo, pathSet, wr, pipe, consumed, cb,
                   guiCalls, started, wg, stopOnce, spc, closes, removes,
                   exitAt, handles, lateOpens>>
    /\ UNCHANGED <<coreVars, lockVars, allocVars>>

\* scanner.Scan() returns a line, which the switch routes to c
Dispatching(c) ==
    /\ lpc = "read"
    /\ pipe /= <<>>
    /\ ControlFor(Head(pipe)) = c
    /\ pipe' = Tail(pipe)
    /\ consumed' = Append(consumed, Head(pipe))
    /\ UNCHANGED <<lpc, stopping, fifo, pathSet, wr, cb, started, wg,
                   stopOnce, spc, closes, removes,
                   exitAt, handles, lateOpens>>
    /\ UNCHANGED <<lockVars, allocVars>>

DispatchStart == Dispatching("Start") /\ ManagerStart /\ guiCalls' = guiCalls
DispatchStop  == Dispatching("Stop") /\ ManagerStop /\ guiCalls' = guiCalls
DispatchInc   == Dispatching("Inc") /\ ManagerInc /\ guiCalls' = guiCalls
DispatchDec   == Dispatching("Dec") /\ ManagerDec /\ guiCalls' = guiCalls

\* case "gui": the callback, if there is one
DispatchGui ==
    /\ Dispatching("gui")
    /\ guiCalls' = IF cb THEN guiCalls + 1 ELSE guiCalls
    /\ UNCHANGED coreVars

\* default: the line is logged
DispatchDefault ==
    /\ Dispatching("default")
    /\ UNCHANGED <<coreVars, guiCalls>>

\* mutant: the handle is left open at the end of the stream
LoopEOFNoClose ==
    /\ lpc = "read"
    /\ pipe = <<>>
    /\ wr = "none"
    /\ lpc' = "debounce"
    /\ UNCHANGED <<stopping, fifo, pathSet, wr, pipe, consumed, cb,
                   guiCalls, started, wg, stopOnce, spc, closes, removes,
                   exitAt, handles, lateOpens>>
    /\ UNCHANGED <<coreVars, lockVars, allocVars>>

\* scanner.Scan() returns false at end of stream; file.Close()
LoopEOF ==
    /\ lpc = "read"
    /\ pipe = <<>>
    /\ wr = "none"
    /\ lpc' = "debounce"
    /\ handles' = handles - 1
    /\ UNCHANGED <<stopping, fifo, pathSet, wr, pipe, consumed, cb,
                   guiCalls, started, wg, stopOnce, spc, closes, removes,
                   exitAt, lateOpens>>
    /\ UNCHANGED <<coreVars, lockVars, allocVars>>

\* select { case <-stopping: return; case <-time.After(100ms): }
LoopDebounceStop == LoopReturn("debounce")

\* mutant: after the debounce the loop reopens without its stop check
LoopDebounceReopen ==
    /\ lpc = "debounce"
    /\ lpc' = "open"
    /\ UNCHANGED <<stopping, fifo, pathSet, wr, pipe, consumed, cb,
                   guiCalls, started, wg, stopOnce, spc, closes, removes,
                   exitAt, handles, lateOpens>>
    /\ UNCHANGED <<coreVars, lockVars, allocVars>>

LoopDebounceDone ==
    /\ lpc = "debounce"
    /\ lpc' = "check"
    /\ UNCHANGED <<stopping, fifo, pathSet, wr, pipe, consumed, cb,
                   guiCalls, started, wg, stopOnce, spc, closes, removes,
                   exitAt, handles, lateOpens>>
    /\ UNCHANGED <<coreVars, lockVars, allocVars>>

Loop ==
    \/ LoopCheckStop \/ LoopCheckGo \/ LoopOpen \/ LoopOpened
    \/ LoopBackoffStop \/ LoopBackoffRetry
    \/ DispatchStart \/ DispatchStop \/ DispatchInc \/ DispatchDec
    \/ DispatchGui \/ DispatchDefault
    \/ LoopEOF \/ LoopDebounceStop \/ LoopDebounceDone

\* the program run with nobody shutting it down
DispatchNext ==
    \/ InitPipe
    \/ MainStartLoop
    \/ AddHandler
    \/ WriterOpen
    \/ \E line \in Lines : WriterWrite(line)
    \/ WriterClose
    \/ LoopCheckGo
    \/ LoopOpen
    \/ LoopOpened
    \/ DispatchStart
    \/ DispatchStop
    \/ DispatchInc
    \/ DispatchDec
    \/ DispatchGui
    \/ DispatchDefault
    \/ LoopEOF
    \/ LoopDebounceDone

DispatchSpec == Init /\ [][DispatchNext]_vars

\* ------------------------------------------------------- Shutdown() ----
Callers == 1..MaxCallers

\* mutant: a Once that has run lets the next caller run the function again
OnceFreeAgain(o) == o \in {"new", "done"}

\* sync.Once: the function is run by the first caller only
OnceFree(o) == o = "new"

\* mutant: Wait() returns whatever the counter is
WaitDoneAlways(n) == n = n

\* sync.WaitGroup: Wait() returns when the counter is zero
WaitDone(n) == n = 0

ShutdownCall(c) ==
    /\ spc[c] = "idle"
    /\ spc' = [spc EXCEPT ![c] = "once"]
    /\ UNCHANGED <<lpc, stopping, fifo, pathSet, wr, pipe, consumed, cb,
                   guiCalls, started, wg, stopOnce, closes, removes,
                   exitAt, handles, lateOpens>>
    /\ UNCHANGED <<coreVars, lockVars, allocVars>>

\* stopOnce.Do, first caller
OnceEnter(c) ==
    /\ spc[c] = "once"
    /\ OnceFree(stopOnce)
    /\ stopOnce' = "running"
    /\ spc' = [spc EXCEPT ![c] = "close"]
    /\ UNCHANGED <<lpc, stopping, fifo, pathSet, wr, pipe, consumed, cb,
                   guiCalls, started, wg, closes, removes,
                   exitAt, handles, lateOpens>>
    /\ UNCHANGED <<coreVars, lockVars, allocVars>>

\* close(stopping)
ShutdownClose(c) ==
    /\ spc[c] = "close"
    /\ stopping' = TRUE
    /\ closes' = closes + 1
    /\ spc' = [spc EXCEPT ![c] = "remove"]
    /\ UNCHANGED <<lpc, fifo, pathSet, wr, pipe, consumed, cb, guiCalls,
                   started, wg, stopOnce, removes,
                   exitAt, handles, lateOpens>>
    /\ UNCHANGED <<coreVars, lockVars, allocVars>>

\* if fifoPipePath != "" { os.Remove(fifoPipePath) }, end of the function
ShutdownRemove(c) ==
    /\ spc[c] = "remove"
    /\ fifo' = (fifo /\ ~pathSet)
    /\ removes' = IF pathSet THEN removes + 1 ELSE removes
    /\ stopOnce' = "done"
    /\ spc' = [spc EXCEPT ![c] = "wait"]
    /\ UNCHANGED <<lpc, stopping, pathSet, wr, pipe, consumed, cb,
                   guiCalls, started, wg, closes,
                   exitAt, handles, lateOpens>>
    /\ UNCHANGED <<coreVars, lockVars, allocVars>>

\* stopOnce.Do, any later caller: returns once the first one is through
OnceSkip(c) ==
    /\ spc[c] = "once"
    /\ stopOnce = "done"
    /\ spc' = [spc EXCEPT ![c] = "wait"]
    /\ UNCHANGED <<lpc, stopping, fifo, pathSet, wr, pipe, consumed, cb,
                   guiCalls, started, wg, stopOnce, closes, removes,
                   exitAt, handles, lateOpens>>
    /\ UNCHANGED <<coreVars, lockVars, allocVars>>

\* wg.Wait() returns, and with it Shutdown()
ShutdownReturn(c) ==
    /\ spc[c] = "wait"
    /\ WaitDone(wg)
    /\ spc' = [spc EXCEPT ![c] = "returned"]
    /\ UNCHANGED <<lpc, stopping, fifo, pathSet, wr, pipe, consumed, cb,
                   guiCalls, started, wg, stopOnce, closes, removes,
                   exitAt, handles, lateOpens>>
    /\ UNCHANGED <<coreVars, lockVars, allocVars>>

\* what a caller of Shutdown() does once it has called
ShutdownRun ==
    \E c \in Callers :
        \/ OnceEnter(c) \/ ShutdownClose(c) \/ ShutdownRemove(c)
        \/ OnceSkip(c) \/ ShutdownReturn(c)

\* the writer sends lines that are no commands: the coordinator stays out
ShutdownNext ==
    \/ InitPipe
    \/ MainStartLoop
    \/ WriterOpen
    \/ WriterWrite("unknown")
    \/ WriterClose
    \/ Unlink
    \/ LoopCheckStop
    \/ LoopCheckGo
    \/ LoopOpen
    \/ LoopOpened
    \/ LoopBackoffStop
    \/ LoopBackoffRetry
    \/ DispatchDefault
    \/ LoopEOF
    \/ LoopDebounceStop
    \/ LoopDebounceDone
    \/ \E c \in Callers : ShutdownCall(c)
    \/ \E c \in Callers : OnceEnter(c)
    \/ \E c \in Callers : ShutdownClose(c)
    \/ \E c \in Callers : ShutdownRemove(c)
    \/ \E c \in Callers : OnceSkip(c)
    \/ \E c \in Callers : ShutdownReturn(c)

\* the loop's task and the callers of Shutdown() are scheduled; writers
\* come and go as they please
ShutdownSpec ==
    Init /\ [][ShutdownNext]_vars /\ WF_vars(Loop) /\ WF_vars(ShutdownRun)

\* ------------------------------ Shutdown() and the broadcaster ----
\* The program with a coordinator installed and nobody writing to the pipe:
\* the broadcaster ticks (its `case <-t.stopCh` never fires, nothing outside
\* the tests closes that channel) while Shutdown() is called.
StopNext ==
    \/ InitPipe
    \/ MainStartLoop
    \/ LoopCheckStop
    \/ LoopCheckGo
    \/ LoopOpen
    \/ Subscribe
    \/ BroadcastElapsed
    \/ BroadcastRemaining
    \/ BroadcastStore
    \/ Advance
    \/ \E c \in Callers : ShutdownCall(c)
    \/ \E c \in Callers : OnceEnter(c)
    \/ \E c \in Callers : ShutdownClose(c)
    \/ \E c \in Callers : ShutdownRemove(c)
    \/ \E c \in Callers : OnceSkip(c)
    \/ \E c \in Callers : ShutdownReturn(c)

StopSpec == Init /\ [][StopNext]_vars

\* ------------------------------------- the allocator of the pipe's path ----
\* what is at candidate i
Kind(f, i) == IF i \in DOMAIN f THEN f[i] ELSE rest

\* mutant: whatever exists at the path passes for a named pipe
IsPipeAny(f, i) == Kind(f, i) /= "absent"

IsPipe(f, i) == Kind(f, i) \in {"fifo", "fifoRead"}

\* mutant: a pipe nobody reads counts as usable
CanUseFifoIdle(k) == k = "fifo"

\* canUseFifo: opening a named pipe write-only and non-blocking succeeds
\* exactly when a reader holds it; opening a file that is no pipe succeeds
CanUseFifo(k) == k \in {"fifoRead", "file"}

\* the loop moves on to the next candidate
Continue == -2

\* one pass of the loop body of mkfifoUnique at candidate i: the candidate
\* when it returns it, Nil when it returns an error, Continue otherwise
Attempt(f, i) ==
    IF Kind(f, i) = "absent" THEN (IF dirOK THEN i ELSE Nil)
    ELSE IF IsPipe(f, i) /\ CanUseFifo(Kind(f, i)) THEN i
    ELSE Continue

RECURSIVE Attempts(_, _, _)
\* the passes at candidates lo .. hi-1 in increasing order, the later half
\* only when the earlier half did not return
Attempts(f, lo, hi) ==
    IF lo >= hi THEN Continue
    ELSE IF hi = lo + 1 THEN Attempt(f, lo)
    ELSE LET mid == (lo + hi) \div 2
             first == Attempts(f, lo, mid)
         IN  IF first /= Continue THEN first ELSE Attempts(f, mid, hi)

\* the candidate the loop of mkfifoUnique returns from candidate i on, Nil
\* when it returns an error
mkfifoUnique(f, i) ==
    LET r == Attempts(f, i, MaxAttempts)
    IN  IF r = Continue THEN Nil ELSE r

\* syscall.Mkfifo at the candidate returned, when nothing was there
Mkfifo(f, r) ==
    IF r = Nil \/ Kind(f, r) /= "absent" THEN f
    ELSE IF r \in DOMAIN f THEN [f EXCEPT ![r] = "fifo"]
    ELSE [i \in DOMAIN f \cup {r} |-> IF i = r THEN "fifo" ELSE Kind(f, i)]

\* InitWithBase(base)
InitWithBase ==
    /\ Len(paths) < MaxAllocs
    /\ LET r == mkfifoUnique(fs, 0)
       IN  /\ fs' = Mkfifo(fs, r)
           /\ paths' = Append(paths, r)
           /\ fifoPipePath' = IF r = Nil THEN fifoPipePath ELSE r
    /\ UNCHANGED <<rest, dirOK>>
    /\ UNCHANGED <<coreVars, lockVars, pipeVars>>

\* somebody else makes a file or a named pipe at a candidate path
Place(i, k) ==
    /\ fs[i] = "absent"
    /\ fs' = [fs EXCEPT ![i] = k]
    /\ UNCHANGED <<rest, dirOK, fifoPipePath, paths>>
    /\ UNCHANGED <<coreVars, lockVars, pipeVars>>

\* a reader opens the named pipe at a candidate path
Attach(i) ==
    /\ fs[i] = "fifo"
    /\ fs' = [fs EXCEPT ![i] = "fifoRead"]
    /\ UNCHANGED <<rest, dirOK, fifoPipePath, paths>>
    /\ UNCHANGED <<coreVars, lockVars, pipeVars>>

\* the reader closes it
Detach(i) ==
    /\ fs[i] = "fifoRead"
    /\ fs' = [fs EXCEPT ![i] = "fifo"]
    /\ UNCHANGED <<rest, dirOK, fifoPipePath, paths>>
    /\ UNCHANGED <<coreVars, lockVars, pipeVars>>

\* somebody else takes every further candidate path
PlaceRest(k) ==
    /\ rest = "absent"
    /\ rest' = k
    /\ UNCHANGED <<fs, dirOK, fifoPipePath, paths>>
    /\ UNCHANGED <<coreVars, lockVars, pipeVars>>

\* the directory stops taking new entries (permissions, read-only, full):
\* syscall.Mkfifo fails with an error other than EEXIST
DirBreak ==
    /\ dirOK
    /\ dirOK' = FALSE
    /\ UNCHANGED <<fs, rest, fifoPipePath, paths>>
    /\ UNCHANGED <<coreVars, lockVars, pipeVars>>

AllocNext ==
    \/ InitWithBase
    \/ \E k \in {"file", "fifo"} : PlaceRest(k)
    \/ DirBreak
    \/ \E i \in 0..MaxSuffix : \E k \in {"file", "fifo"} : Place(i, k)
    \/ \E i \in 0..MaxSuffix : Attach(i)
    \/ \E i \in 0..MaxSuffix : Detach(i)

AllocSpec == Init /\ [][AllocNext]_vars

\* ------------------------------------------------- the two mutexes ----
\* Every method is the sequence of Lock()/Unlock() calls it makes, with the
\* steps in between that matter to who locks what: "load" reads
\* TimerManager.Timer, "swap" is Reset()'s assignment to it, "arm" is
\* time.AfterFunc, which leaves a goroutine that will run the timer function.
Broadcaster == 1

Methods == {"Start", "Stop", "Reset", "Inc", "Dec", "Snapshot", "Subscribe",
            "Done"}

\* StartTimer() / StopTimer() / Remaining() of the primitive
StartTimerProgram == <<"lockP", "arm", "unlockP">>
StopTimerProgram  == <<"lockP", "unlockP">>
RemainingProgram  == <<"lockP", "unlockP", "lockP", "unlockP">>

\* the handler Start() installs
HandlerProgram == <<"lockM", "unlockM">>

\* mutant: the timer function calls the handler inside its critical section
FireProgramHolding == <<"lockP">> \o HandlerProgram \o <<"unlockP">>

\* the function given to time.AfterFunc
FireProgram == <<"lockP", "unlockP">> \o HandlerProgram

Program(op) ==
    CASE op = "Start" -> <<"lockM", "load", "storeHandler">>
                             \o StartTimerProgram \o <<"unlockM">>
      [] op \in {"Inc", "Dec"} ->
                         <<"lockM", "load", "storeDuration", "unlockM">>
      [] op = "Stop"  -> <<"load">> \o StopTimerProgram
      [] op = "Reset" -> <<"lockM", "swap", "unlockM">>
      [] op = "Done"  -> <<>>
      [] OTHER        -> <<"lockM", "unlockM">>

\* one tick of broadcast()
TickProgram == <<"load">> \o RemainingProgram \o <<"lockM", "unlockM">>

Next1(t, step) == thr[t].prog /= <<>> /\ Head(thr[t].prog) = step

Pop(t) == [thr EXCEPT ![t].prog = Tail(@)]

\* a goroutine of its own calls a method of the coordinator
LockCall(op) ==
    /\ ncalls < MaxLockCalls
    /\ ncalls' = ncalls + 1
    /\ thr' = Append(thr, [prog |-> Program(op), p |-> Nil])
    /\ UNCHANGED <<mu, tmu, cur, nticks>>
    /\ UNCHANGED <<coreVars, pipeVars, allocVars>>

\* case <-ticker.C
LockTick ==
    /\ thr[Broadcaster].prog = <<>>
    /\ nticks < MaxTime \div TickInterval
    /\ nticks' = nticks + 1
    /\ thr' = [thr EXCEPT ![Broadcaster].prog = TickProgram]
    /\ UNCHANGED <<mu, tmu, cur, ncalls>>
    /\ UNCHANGED <<coreVars, pipeVars, allocVars>>

\* t.mu.Lock() of the coordinator
LockM(t) ==
    /\ Next1(t, "lockM")
    /\ mu = Nil
    /\ mu' = t
    /\ thr' = Pop(t)
    /\ UNCHANGED <<tmu, cur, ncalls, nticks>>
    /\ UNCHANGED <<coreVars, pipeVars, allocVars>>

UnlockM(t) ==
    /\ Next1(t, "unlockM")
    /\ mu' = Nil
    /\ thr' = Pop(t)
    /\ UNCHANGED <<tmu, cur, ncalls, nticks>>
    /\ UNCHANGED <<coreVars, pipeVars, allocVars>>

\* the read of t.Timer that picks the receiver
Load(t) ==
    /\ Next1(t, "load")
    /\ thr' = [thr EXCEPT ![t].prog = Tail(@), ![t].p = cur]
    /\ UNCHANGED <<mu, tmu, cur, ncalls, nticks>>
    /\ UNCHANGED <<coreVars, pipeVars, allocVars>>

\* t.mu.Lock() of the primitive
LockP(t) ==
    /\ Next1(t, "lockP")
    /\ tmu[thr[t].p] = Nil
    /\ tmu' = [tmu EXCEPT ![thr[t].p] = t]
    /\ thr' = Pop(t)
    /\ UNCHANGED <<mu, cur, ncalls, nticks>>
    /\ UNCHANGED <<coreVars, pipeVars, allocVars>>

UnlockP(t) ==
    /\ Next1(t, "unlockP")
    /\ tmu' = [tmu EXCEPT ![thr[t].p] = Nil]
    /\ thr' = Pop(t)
    /\ UNCHANGED <<mu, cur, ncalls, nticks>>
    /\ UNCHANGED <<coreVars, pipeVars, allocVars>>

\* time.AfterFunc: a goroutine that will run the timer function
Arm(t) ==
    /\ Next1(t, "arm")
    /\ thr' = Append(Pop(t), [prog |-> FireProgram, p |-> thr[t].p])
    /\ UNCHANGED <<mu, tmu, cur, ncalls, nticks>>
    /\ UNCHANGED <<coreVars, pipeVars, allocVars>>

\* an assignment to a field of the primitive made by the coordinator:
\* t.Timer.Handler = func.. in Start(), t.Timer.Duration += / -= / = 0 in
\* Inc() and Dec()
Store(t) ==
    /\ Next1(t, "storeHandler") \/ Next1(t, "storeDuration")
    /\ thr' = Pop(t)
    /\ UNCHANGED <<mu, tmu, cur, ncalls, nticks>>
    /\ UNCHANGED <<coreVars, pipeVars, allocVars>>

\* t.Timer = NewTimer(d)
Swap(t) ==
    /\ Next1(t, "swap")
    /\ tmu' = Append(tmu, Nil)
    /\ cur' = Len(tmu) + 1
    /\ thr' = Pop(t)
    /\ UNCHANGED <<mu, ncalls, nticks>>
    /\ UNCHANGED <<coreVars, pipeVars, allocVars>>

Threads == 1..Len(thr)

LockRun ==
    \E t \in Threads :
        LockM(t) \/ UnlockM(t) \/ Load(t) \/ LockP(t) \/ UnlockP(t)
        \/ Arm(t) \/ Swap(t) \/ Store(t)

LockNext ==
    \/ \E op \in Methods : LockCall(op)
    \/ LockTick
    \/ \E t \in Threads : LockM(t)
    \/ \E t \in Threads : UnlockM(t)
    \/ \E t \in Threads : Load(t)
    \/ \E t \in Threads : LockP(t)
    \/ \E t \in Threads : UnlockP(t)
    \/ \E t \in Threads : Arm(t)
    \/ \E t \in Threads : Swap(t)
    \/ \E t \in Threads : Store(t)

\* the duration plays no part in who locks what
LockInit == Init /\ constructed = 0

\* some goroutine that can take a step eventually takes one
LockSpec == LockInit /\ [][LockNext]_vars /\ WF_vars(LockRun)

TypeOK ==
    /\ now \in 0..MaxTime
    /\ Timer \in 1..Len(heap)
    /\ doneCh \in 1..Len(heap)
    /\ Len(log) <= MaxCalls
    /\ bpc \in {"wait", "elapsed", "remaining"}

\* ------------------------------------------------------------ claims -----
LastOp(op) == log /= <<>> /\ log[Len(log)].op = op

LastTwo(op1, op2) ==
    /\ Len(log) >= 2
    /\ log[Len(log) - 1].op = op1
    /\ log[Len(log)].op = op2

\* the step is a call of method op
Called(op) == Len(log') = Len(log) + 1 /\ log'[Len(log')].op = op

\* runtime timer g of primitive p is the one armed by the latest StartTimer()
\* of p and no StopTimer() has been called on p since
Undisturbed(p, g) ==
    g = Len(heap[p].Timer) /\ heap[p].Timer[g].stop = "no"

\* C1: for every duration d > 0, once more than d has passed since a
\* StartTimer() that no later StartTimer()/StopTimer() followed, IsComplete
\* is true and the handler has been invoked exactly once for that arm cycle;
\* no arm cycle ever invokes the handler twice.
C1_CompletesExactlyOnce ==
    \A pg \in Arms :
        LET t  == heap[pg[1]]
            rt == heap[pg[1]].Timer[pg[2]]
        IN  /\ rt.calls <= 1
            /\ (rt.d > 0 /\ Undisturbed(pg[1], pg[2]) /\ now > rt.when)
                  => (t.IsComplete /\ rt.calls = 1)

C1_Witness ==
    \E pg \in Arms :
        /\ heap[pg[1]].Timer[pg[2]].d > 0
        /\ Undisturbed(pg[1], pg[2])
        /\ now > heap[pg[1]].Timer[pg[2]].when
        /\ heap[pg[1]].IsComplete
        /\ heap[pg[1]].Timer[pg[2]].calls = 1

C3_ResetRestoresConstructed ==
    LastOp("Reset") => heap[Timer].Duration = constructed

\* C4: a broadcast tick that samples the started primitive after it has
\* completed leaves Snapshot() at 0.
C4_SnapshotZeroAfterCompletion ==
    [][(bpc = "remaining" /\ bpc' = "wait" /\ sampledDone /\ bT = Timer)
          => lastValue' = 0]_vars

\* C5: while no timer has ever been started, Snapshot() is the constructed
\* duration, from construction on.
C5_SnapshotIsConstructed ==
    (\A p \in 1..Len(heap) : heap[p].Timer = <<>>) => Snapshot = constructed

\* C6: Remaining() of a primitive that has never been started is 0.
C6_RemainingZeroBeforeStart ==
    \A p \in 1..Len(heap) :
        heap[p].StartedAt = Nil => Remaining(heap[p], now) = 0

\* C7: after a Start() that no Stop(), Reset() or Start() followed, the
\* channel Done() returns is closed once the duration has elapsed, and a
\* closed channel stays closed.
C7_DoneBecomesReady ==
    /\ [](\A g \in 1..Len(heap[Timer].Timer) :
            (Undisturbed(Timer, g) /\ now > heap[Timer].Timer[g].when)
               => Done \in closed)
    /\ [][closed \subseteq closed']_vars

C7_Witness ==
    \E g \in 1..Len(heap[Timer].Timer) :
        /\ Undisturbed(Timer, g)
        /\ heap[Timer].Timer[g].d > 0
        /\ now > heap[Timer].Timer[g].when
        /\ Done \in closed

\* C8: the step of a Reset() call leaves Done() on a channel that differs
\* from the one before the call and is not closed.
C8_ResetFreshDone ==
    [][Called("Reset") => (doneCh' /= doneCh /\ doneCh' \notin closed')]_vars

C8_Witness ==
    /\ LastOp("Reset")
    /\ Done \notin closed
    /\ \E c \in closed : c /= Done

\* C9: when the last two calls are Inc() then Dec(), the Duration is the
\* one before the Inc().
C9_IncDecRestores ==
    LastTwo("Inc", "Dec") => heap[Timer].Duration = log[Len(log) - 1].d

C9_Witness ==
    /\ LastTwo("Inc", "Dec")
    /\ log[Len(log) - 1].d = 0
    /\ heap[Timer].Duration = 0

\* C10: no primitive's Duration is ever negative; after Dec() the Duration
\* is 0 when it was below the step before, else it is one step less.
C10_DecFloorsAtZero ==
    /\ \A p \in 1..Len(heap) : heap[p].Duration >= 0
    /\ LastOp("Dec") =>
          heap[Timer].Duration =
             IF log[Len(log)].d < Step THEN 0 ELSE log[Len(log)].d - Step

C10_Witness ==
    /\ LastOp("Dec")
    /\ log[Len(log)].d > 0
    /\ log[Len(log)].d < Step
    /\ heap[Timer].Duration = 0

\* C11: the step that ends a broadcast tick leaves every subscriber with at
\* least one value, and every subscriber whose buffer is not full gets the
\* same value, the one the tick stores as the snapshot, appended to its buffer
C11_TickReachesEverySubscriber ==
    [][(bpc = "remaining" /\ bpc' = "wait") =>
          \A i \in 1..Len(subs) :
              /\ Len(subs'[i]) >= 1
              /\ Len(subs[i]) < SubBuffer => subs'[i] = Append(subs[i], lastValue')]_vars

\* two subscribers made before any Start() each hold the first tick's value
C11_Witness ==
    /\ Len(subs) >= 2
    /\ ~(\E i \in 1..Len(log) : log[i].op = "Start")
    /\ \A i \in 1..Len(subs) : subs[i] = <<lastValue>>

\* the broadcaster is never stuck before the step that ends a tick
TickNeverBlocks == bpc = "remaining" => ENABLED BroadcastStore

\* the step that ends a tick: full buffers untouched, the others appended to
TickDropsWhenFull ==
    (bpc = "remaining" /\ bpc' = "wait") =>
        /\ lastValue' = remaining
        /\ Len(subs') = Len(subs)
        /\ \A i \in 1..Len(subs) :
               IF Len(subs[i]) = SubBuffer
               THEN subs'[i] = subs[i]
               ELSE subs'[i] = Append(subs[i], remaining)

\* C12: the step that ends a broadcast tick can always be taken, and it
\* leaves a full buffer (10 values) exactly as it was, appends the tick's
\* value to every other buffer, stores the value as the snapshot and puts
\* the broadcaster back to waiting for the next tick
C12_FullBufferDropsOnly == []TickNeverBlocks /\ [][TickDropsWhenFull]_vars

\* the first subscriber's buffer is full and missed the latest tick, which
\* the second subscriber and the snapshot did get
C12_Witness ==
    /\ Len(subs) >= 2
    /\ Len(subs[1]) = SubBuffer
    /\ lastValue /= subs[1][SubBuffer]
    /\ 0 < Len(subs[2]) /\ Len(subs[2]) < SubBuffer
    /\ subs[2][Len(subs[2])] = lastValue
    /\ bpc = "wait"

\* the lock a goroutine is waiting for, and who holds it
WaitsM(t) == Next1(t, "lockM") /\ mu /= Nil
WaitsP(t) == Next1(t, "lockP") /\ tmu[thr[t].p] /= Nil
Blocker(t) == IF WaitsM(t) THEN mu ELSE IF WaitsP(t) THEN tmu[thr[t].p] ELSE Nil

RECURSIVE WaitChain(_, _)
\* the goroutine reached from t by following n waits, Nil if the chain ends
WaitChain(t, n) ==
    IF t = Nil \/ n = 0 THEN t ELSE WaitChain(Blocker(t), n - 1)

NoCyclicWait ==
    \A t \in Threads : \A n \in 1..Len(thr) : WaitChain(t, n) /= t

AllReturned == \A t \in Threads : thr[t].prog = <<>>

\* C13: no goroutine waits, through the coordinator's and the primitives'
\* mutexes, for itself, and whatever calls, ticks and timer functions are
\* under way, all of them eventually return
C13_NoDeadlock == []NoCyclicWait /\ []<>AllReturned

\* a Start() holding the coordinator's mutex waits for the primitive's mutex,
\* held by the timer function of an earlier Start()
C13_Witness ==
    \E t \in Threads : \E f \in Threads :
        /\ thr[f].prog = Tail(FireProgram)
        /\ mu = t
        /\ WaitsP(t)
        /\ tmu[thr[t].p] = f

\* the calls the coordinator has seen, in order
Ops == [i \in 1..Len(log) |-> log[i].op]

RECURSIVE Routed(_)
\* the controls that the lines of a sequence stand for, in order
Routed(ls) ==
    IF ls = <<>> THEN <<>>
    ELSE LET op == CASE Head(ls) = "start" -> <<"Start">>
                     [] Head(ls) = "stop"  -> <<"Stop">>
                     [] Head(ls) = "inc"   -> <<"Inc">>
                     [] Head(ls) = "dec"   -> <<"Dec">>
                     [] OTHER              -> <<>>
         IN  op \o Routed(Tail(ls))

\* the loop has read a line in this step
ReadsLine == consumed' /= consumed

\* each line read has caused one call of its control and nothing else
OneCallPerLine ==
    /\ Ops = Routed(consumed)
    /\ consumed = <<"inc", "inc", "dec">> =>
           heap[Timer].Duration = constructed + Step

\* lines are taken one at a time from the front of what was written
ReadsInOrder ==
    ReadsLine =>
        /\ pipe /= <<>>
        /\ consumed' = Append(consumed, Head(pipe))
        /\ pipe' = Tail(pipe)
        /\ Len(log') <= Len(log) + 1

\* C14: the dispatch loop reads the lines one at a time in the order
\* written, the calls the coordinator sees are exactly the controls of the
\* start/stop/inc/dec lines read so far, in that order, and after inc, inc,
\* dec the duration is the constructed one plus one step
C14_DispatchInOrder == []OneCallPerLine /\ [][ReadsInOrder]_vars

\* inc, inc, dec sent to a coordinator made with 100 ms
C14_Witness ==
    /\ constructed = 1
    /\ consumed = <<"inc", "inc", "dec">>
    /\ Ops = <<"Inc", "Inc", "Dec">>
    /\ heap[Timer].Duration = 1 + Step

DispatchAny ==
    \/ DispatchStart \/ DispatchStop \/ DispatchInc \/ DispatchDec
    \/ DispatchGui \/ DispatchDefault

\* a line that is none of the five commands changes nothing but the pipe
IgnoresUnknown ==
    (ReadsLine /\ Head(pipe) \notin {"start", "stop", "inc", "dec", "gui"}) =>
        /\ UNCHANGED coreVars
        /\ guiCalls' = guiCalls
        /\ cb' = cb
        /\ lpc' = "read"

\* with a line waiting, the loop can read it
KeepsReading == (lpc = "read" /\ pipe /= <<>>) => ENABLED DispatchAny

\* C15: reading a line other than start, stop, inc, dec, gui leaves the
\* coordinator and the toggle callback as they were and the loop reading,
\* able to take the next line
C15_UnknownIgnored == [][IgnoresUnknown]_vars /\ []KeepsReading

\* "INC" was read and ignored, the "inc" after it was applied
C15_Witness ==
    /\ consumed = <<"INC", "inc">>
    /\ Ops = <<"Inc">>
    /\ heap[Timer].Duration = constructed + Step
    /\ lpc = "read"

\* the caller c of Shutdown() is past stopOnce.Do
PastOnce(c) == spc[c] \in {"wait", "returned"}

\* never a second close, never a second removal
AtMostOnce ==
    /\ closes <= 1
    /\ removes <= 1
    /\ \A c \in Callers : PastOnce(c) => (closes = 1 /\ stopping)

\* with a path set, the function given to stopOnce.Do removes the file
RemovesOnce ==
    \A c \in Callers :
        (spc[c] = "remove" /\ spc'[c] = "wait" /\ pathSet) =>
            (removes' = 1 /\ ~fifo')

\* C16: however many callers of Shutdown() there are and however they
\* interleave, the stop signal is closed once and the pipe file is removed
\* once: no caller gets past stopOnce.Do before the one close, and nobody
\* closes or removes a second time
C16_ShutdownOnce == []AtMostOnce /\ [][RemovesOnce]_vars

\* every caller is past stopOnce.Do: one close, one removal, no file left
C16_Witness ==
    /\ \A c \in Callers : PastOnce(c)
    /\ closes = 1
    /\ removes = 1
    /\ ~fifo

\* C17: every call of Shutdown() eventually returns, wherever the loop is,
\* also when no writer has the pipe open or opens it any more
C17_ShutdownReturns ==
    \A c \in Callers :
        (spc[c] /= "idle") ~> (spc[c] = "returned" \/ wr /= "none")

\* a call of Shutdown() returns in this step
Returns(c) == spc[c] = "wait" /\ spc'[c] = "returned"

\* C18: when a call of Shutdown() returns, the loop started by Main(), if
\* Main() has started one, has returned
C18_ReturnAfterLoop ==
    [][\A c \in Callers : Returns(c) => (started => lpc = "stopped")]_vars

\* a call of Shutdown() has returned after the loop left its reading state
C18_Witness ==
    /\ \E c \in Callers : spc[c] = "returned"
    /\ started
    /\ lpc = "stopped"
    /\ exitAt = "debounce"

\* a failed open leads to the backoff wait, which ends in a retry from the
\* top of the loop or, with the stop signal fired, in the return
BackoffSteps ==
    /\ (lpc = "open" /\ ~fifo /\ lpc' /= lpc) => lpc' = "backoff"
    /\ (lpc = "backoff" /\ lpc' /= lpc) =>
           \/ lpc' = "check"
           \/ stopping /\ lpc' = "stopped"

\* the loop cannot open the pipe
OpenFailing == ~fifo /\ lpc \in {"open", "backoff"}

\* C19: while there is no file to open, a failed open is followed by the
\* backoff wait and the wait by another attempt or, with the stop signal
\* fired, by the return; without the stop signal the loop does try again,
\* and once the stop signal has fired the loop returns
C19_BackoffThenStop ==
    /\ [][BackoffSteps]_vars
    /\ (lpc = "backoff" /\ ~stopping) ~> (lpc = "open" \/ stopping)
    /\ (OpenFailing /\ stopping) ~> (lpc = "stopped")

\* the stop signal fired during a backoff wait and the loop returned from it
C19_Witness ==
    /\ lpc = "stopped"
    /\ exitAt = "backoff"
    /\ ~fifo

\* an allocation returns r in this step
Allocates(r) == paths' = Append(paths, r)

\* the path the previous allocation returned
LastPath == paths[Len(paths)]

\* the allocation that follows one whose pipe is still there, unread
Candidates == 0..(MaxAttempts - 1)

\* nothing outside the process stands in the way: the directory takes new
\* entries and some candidate path is free
RoomLeft == dirOK /\ \E i \in Candidates : Kind(fs, i) = "absent"

SecondAllocation ==
    \A r \in DOMAIN fs' \cup {Nil} :
        (/\ Allocates(r)
         /\ RoomLeft
         /\ paths /= <<>>
         /\ LastPath /= Nil
         /\ Kind(fs, LastPath) = "fifo") =>
            /\ r \notin {Nil, LastPath}
            /\ LastPath = 0 => r >= 1
            /\ IsPipe(fs', r)
            /\ IsPipe(fs', LastPath)

NeverReusesRead ==
    \A r \in DOMAIN fs' :
        Allocates(r) => Kind(fs, r) /= "fifoRead"

\* C21: the allocator never returns the path of an existing named pipe that
\* a reader holds open; such a candidate is passed over for the next one
C21_NoReuseWithReader == [][NeverReusesRead]_vars

\* a candidate the allocator passes over: something is there that is not a
\* pipe, or a pipe the probe cannot open
Unusable(i) == Kind(fs, i) \in {"file", "fifo"}

\* the first candidate that is not passed over, MaxAttempts when there is none
FirstUsable ==
    IF \A i \in Candidates : Unusable(i) THEN MaxAttempts
    ELSE CHOOSE i \in Candidates :
            ~Unusable(i) /\ \A j \in 0..(i - 1) : Unusable(j)

AllocationResult ==
    \A r \in DOMAIN fs' \cup {Nil} :
        Allocates(r) =>
            /\ r /= Nil =>
                /\ r \in Candidates
                /\ r = FirstUsable
                /\ Kind(fs, r) /= "file"
                /\ Kind(fs', r) \in {"fifo", "fifoRead"}
                /\ fifoPipePath' = r
            /\ r = Nil =>
                /\ fifoPipePath' = fifoPipePath
                /\ fs' = fs
                /\ \/ FirstUsable = MaxAttempts
                   \/ ~dirOK /\ Kind(fs, FirstUsable) = "absent"
            /\ FirstUsable = MaxAttempts => r = Nil

\* C22: an allocation looks at base.<pid>, base.<pid>.1 .. base.<pid>.999 in
\* this order and returns the first one it can create or that its probe
\* accepts, never one where something other than a named pipe is; when all
\* thousand are unusable it returns an error and the recorded path stays
C22_FirstUsableOrError == [][AllocationResult]_vars

\* an allocation failed for want of a candidate after one had succeeded,
\* with a file and an unread pipe among the candidates passed over
C22_Witness ==
    /\ paths = <<0, Nil>>
    /\ fifoPipePath = 0
    /\ dirOK
    /\ \E i \in DOMAIN fs : fs[i] = "file"
    /\ \A i \in Candidates : Unusable(i)

\* the runtime timer armed by the latest StartTimer() of primitive p
LatestArm(p) == heap[p].Timer[Len(heap[p].Timer)]

\* C23: IsComplete is true, and the handler has been called for an arm
\* cycle, only when the duration has passed since the latest StartTimer()
\* of the primitive
C23_CompleteOnlyByLatestArm ==
    \A p \in 1..Len(heap) :
        heap[p].Timer /= <<>> =>
            /\ heap[p].IsComplete => now >= LatestArm(p).when
            /\ \A g \in 1..Len(heap[p].Timer) :
                  heap[p].Timer[g].st = "call" => now >= LatestArm(p).when

\* the handler calls that called close() on channel c
Closers(c) == {pg \in Arms : heap[pg[1]].Timer[pg[2]].closedCh = c}

\* C24: no done channel has close() called on it twice, whatever Start(),
\* Reset() and timer fires came before
C24_ClosedAtMostOnce ==
    \A c \in 1..Len(heap) : Cardinality(Closers(c)) <= 1

\* two fires have run the handler on the same channel, the second finding it
\* closed
C24_Witness ==
    /\ ~\E i \in 1..Len(log) : log[i].op = "Reset"
    /\ Cardinality(Closers(doneCh)) = 1
    /\ \E pg \in Arms :
          /\ heap[pg[1]].Timer[pg[2]].calls = 1
          /\ heap[pg[1]].Timer[pg[2]].closedCh = Nil

\* C25: when Reset() is the latest call to have returned, Snapshot() returns
\* the duration of the coordinator's primitive, wherever the broadcaster is
\* in its tick
C25_SnapshotAfterReset ==
    LastOp("Reset") => Snapshot = heap[Timer].Duration

\* goroutine t is about to read the coordinator's field Timer
ReadsTimer(t) == Next1(t, "load")

\* goroutine t is about to assign the coordinator's field Timer
WritesTimer(t) == Next1(t, "swap")

\* C26: a goroutine reads or writes the coordinator's field Timer only while
\* it holds the coordinator's lock, so no read of the field is concurrent
\* with a write of it
C26_TimerFieldUnderLock ==
    \A t \in Threads :
        (/\ ReadsTimer(t)
         /\ \E u \in Threads \ {t} : WritesTimer(u)) => mu = t

\* goroutine u is inside a critical section of primitive p
Inside(u, p) == thr[u].p = p /\ tmu[p] = u

\* the broadcaster is in the second critical section of Remaining(), which
\* reads Duration
InRemaining(u) ==
    u = Broadcaster /\ thr[u].prog = <<"unlockP", "lockM", "unlockM">>

\* a goroutine started by time.AfterFunc is in the critical section of the
\* timer function, which reads Handler
InFire(u) ==
    u /= Broadcaster /\ thr[u].prog = <<"unlockP">> \o HandlerProgram

\* C27: Duration and Handler of a primitive are assigned only by a goroutine
\* that holds the primitive's lock, so Inc() and Dec() never assign Duration
\* while Remaining() is reading it and Start() never assigns Handler while
\* the timer function is reading it
C27_PrimitiveFieldsUnderLock ==
    \A t \in Threads : \A u \in Threads \ {t} :
        /\ ~(Next1(t, "storeDuration") /\ Inside(u, thr[t].p) /\ InRemaining(u))
        /\ ~(Next1(t, "storeHandler") /\ Inside(u, thr[t].p) /\ InFire(u))

\* the fire armed by the latest StartTimer() of primitive p has happened
Completed(p) ==
    heap[p].Timer /= <<>> /\ LatestArm(p).st \in {"call", "done"}

C29_RemainingZeroAfterCompletion ==
    \A p \in 1..Len(heap) :
        (/\ Completed(p)
         /\ heap[p].Duration = LatestArm(p).d
         /\ now > LatestArm(p).when)
            => Remaining(heap[p], now) = 0

\* C30: the pair timerSnapshot() returns always has its remaining time
\* between 0 and its duration
C30_RemainingWithinDuration ==
    /\ 0 <= timerSnapshot[2]
    /\ timerSnapshot[2] <= timerSnapshot[1]

\* the step is the critical section of a broadcaster tick
TickStores == bpc = "remaining" /\ bpc' = "wait"

SnapshotChangesOnlyByTickOrReset ==
    /\ Snapshot' /= Snapshot => (TickStores \/ Called("Reset"))
    /\ \A op \in {"Start", "Stop", "Inc", "Dec", "Subscribe"} :
          Called(op) => Snapshot' = Snapshot

\* C31: the value Snapshot() returns changes only in a broadcaster tick or in
\* Reset(); Start(), Stop(), Inc(), Dec() and Subscribe() leave it as it is
\* (Done() writes nothing at all)
C31_SnapshotIsStoredValue == [][SnapshotChangesOnlyByTickOrReset]_vars

\* Dec() has returned and the stored snapshot is not the remaining time a
\* fresh computation would give
C31_Witness ==
    /\ LastOp("Dec")
    /\ Snapshot /= Remaining(heap[Timer], now)

\* C32: the dispatch loop has returned only when the stop signal has fired;
\* a failed open, the end of the stream or a line that is no command does
\* not end it
C32_StoppedOnlyAfterStop == lpc = "stopped" => stopping

\* the loop has read a line that is no command, met the end of the stream,
\* then failed to open the pipe, and returned from there
C32_Witness ==
    /\ lpc = "stopped"
    /\ exitAt = "backoff"
    /\ \E i \in 1..Len(consumed) : ControlFor(consumed[i]) = "default"

\* the state of the loop's state machine at position l of handle_cmds; the
\* stop check at the top of the loop is counted with OPENING
Phase(l) ==
    CASE l = "idle"     -> "NONE"
      [] l = "read"     -> "READING"
      [] l = "debounce" -> "CLOSING"
      [] l = "stopped"  -> "STOPPED"
      [] OTHER          -> "OPENING"

\* the moves between different states, and OPENING -> OPENING after a failed
\* open; from CLOSING with the stop signal fired the loop gets no further than
\* the stop check
LoopMoves ==
    /\ Phase(lpc') /= Phase(lpc) =>
          \/ Phase(lpc) = "NONE" /\ lpc' = "check"
          \/ lpc = "blocked" /\ Phase(lpc') = "READING"
          \/ Phase(lpc) = "OPENING" /\ Phase(lpc') = "STOPPED" /\ stopping
          \/ Phase(lpc) = "READING" /\ Phase(lpc') = "CLOSING"
          \/ Phase(lpc) = "CLOSING" /\ lpc' = "check"
          \/ Phase(lpc) = "CLOSING" /\ Phase(lpc') = "STOPPED" /\ stopping
    /\ lpc = "backoff" /\ lpc' /= lpc => lpc' \in {"check", "stopped"}
    /\ lpc' = "open" /\ lpc /= "open" => lpc = "check" /\ ~stopping
    /\ lpc = "stopped" => lpc' = "stopped"

\* the loop holds a read handle exactly while it is READING
OneHandle == handles = IF lpc = "read" THEN 1 ELSE 0

\* C33: the dispatch loop moves only OPENING -> READING (the open returned),
\* OPENING -> OPENING (the open failed), OPENING -> STOPPED, READING ->
\* CLOSING, CLOSING -> OPENING and CLOSING -> STOPPED, begins an open only
\* with the stop signal unfired, and never leaves STOPPED; the handle of a
\* READING phase is closed when the phase ends, so the loop never holds two
C33_LoopStateMachine == [][LoopMoves]_vars /\ []OneHandle

\* the loop has opened the pipe, read from it, closed it and returned
C33_Witness ==
    /\ lpc = "stopped"
    /\ exitAt = "debounce"
    /\ consumed /= <<>>
    /\ handles = 0

\* some call of Shutdown() has returned
ShutdownOver == \E c \in Callers : spc[c] = "returned"

\* the broadcaster takes a tick from its ticker
TickBegins == bpc = "wait" /\ bpc' = "elapsed"

\* C34: once Shutdown() has returned the broadcaster takes no further tick,
\* so it stores no snapshot and pushes to no subscriber any more
C34_ShutdownStopsBroadcaster == [][ShutdownOver => ~TickBegins]_vars

\* Reset() has been called and Start() has not been called since
NoStartSinceReset ==
    \E i \in 1..Len(log) :
        /\ log[i].op = "Reset"
        /\ \A j \in (i + 1)..Len(log) : log[j].op /= "Start"

\* C35: the channel Done() returns after a Reset() is not closed as long as
\* no Start() has followed that Reset(), whatever was armed before it
C35_ResetDoneNeedsNewStart == NoStartSinceReset => Done \notin closed

\* every channel Done() has ever returned
Channels == 1..doneCh

\* an unclosed channel that Reset() has dropped, or drops in this step, is
\* not closed by the step and does not become the current channel again
DroppedStaysOpen ==
    \A c \in Channels :
        (c \notin closed /\ (c /= doneCh \/ Called("Reset")))
            => (c \notin closed' /\ c /= doneCh')

\* C36: a done channel that is unclosed when Reset() drops it is never closed
\* afterwards, whatever Start() calls and fires follow
C36_DroppedChannelNeverCloses == [][DroppedStaysOpen]_vars

\* the channel dropped by a Reset() is still open after a later fire has
\* closed the channel that took its place
C36_Witness ==
    /\ doneCh > 1
    /\ 1 \notin closed
    /\ doneCh \in closed
    /\ \E i \in 2..Len(log) : log[i].op = "Start" /\ log[i - 1].op = "Reset"

\* Inc() and Dec() change the Duration of the current primitive and nothing
\* else of any primitive
IncDecOnlyDuration ==
    (Called("Inc") \/ Called("Dec")) =>
        /\ heap' = [heap EXCEPT ![Timer].Duration = heap'[Timer].Duration]
        /\ UNCHANGED <<Timer, doneCh, closed, lastValue>>

\* the fire of the latest StartTimer() of every primitive is due the duration
\* of that moment after it, does not happen before, and has happened once
\* that time is past when no StopTimer() came; until completion Remaining()
\* counts down from the Duration as it is now
DeadlineFixedAtStart ==
    \A p \in 1..Len(heap) :
        heap[p].Timer /= <<>> =>
            LET rt == LatestArm(p) IN
            /\ rt.when = heap[p].StartedAt + rt.d
            /\ now < rt.when => rt.st \in {"active", "stopped"}
            /\ (now > rt.when /\ rt.stop = "no") =>
                  (heap[p].IsComplete /\ rt.calls = 1)
            /\ ~heap[p].IsComplete =>
                  Remaining(heap[p], now) =
                     IF heap[p].Duration < now - heap[p].StartedAt THEN 0
                     ELSE heap[p].Duration - (now - heap[p].StartedAt)

\* C37: Inc() and Dec() change only Duration; the pending fire stays where
\* StartTimer() put it, the duration of that moment after the start, and
\* Remaining() is computed from the Duration as adjusted
C37_IncDecKeepDeadline == [][IncDecOnlyDuration]_vars /\ []DeadlineFixedAtStart

\* Inc() has returned while the countdown is running; the fire is still due
\* at the old time and Remaining() already shows the longer duration
C37_Witness ==
    /\ LastOp("Inc")
    /\ heap[Timer].Timer /= <<>>
    /\ LatestArm(Timer).st = "active"
    /\ now > heap[Timer].StartedAt
    /\ now < LatestArm(Timer).when
    /\ heap[Timer].Duration = LatestArm(Timer).d + Step
    /\ Remaining(heap[Timer], now) > LatestArm(Timer).when - now

\* primitive t without the history of its StopTimer() calls
NoStopLog(t) ==
    [t EXCEPT !.Timer = [g \in 1..Len(t.Timer) |->
                            [t.Timer[g] EXCEPT !.stop = "no"]]]

\* the one thing a StopTimer() may do to primitive t: cancel its pending fire
Cancelled(t) ==
    IF t.Timer /= <<>> /\ t.Timer[Len(t.Timer)].st = "active"
    THEN [t EXCEPT !.Timer[Len(t.Timer)].st = "stopped"]
    ELSE t

StopOnlyCancels ==
    Called("Stop") =>
        /\ \A p \in 1..Len(heap) :
              NoStopLog(heap'[p]) =
                 NoStopLog(IF p = Timer THEN Cancelled(heap[p]) ELSE heap[p])
        /\ UNCHANGED <<Timer, doneCh, closed, lastValue, subs>>

\* the latest StartTimer() of primitive p was stopped before its deadline and
\* no earlier arm cycle of p got as far as firing
StoppedEarly(p) ==
    /\ heap[p].Timer /= <<>>
    /\ LatestArm(p).stop = "early"
    /\ \A k \in 1..(Len(heap[p].Timer) - 1) : heap[p].Timer[k].st = "stopped"

StoppedKeepsCounting ==
    \A p \in 1..Len(heap) :
        StoppedEarly(p) =>
            /\ ~heap[p].IsComplete
            /\ LatestArm(p).calls = 0
            /\ Elapsed(heap[p], now) = now - heap[p].StartedAt
            /\ Remaining(heap[p], now) =
                  IF heap[p].Duration < now - heap[p].StartedAt THEN 0
                  ELSE heap[p].Duration - (now - heap[p].StartedAt)

Prefix(a, b) == Len(a) <= Len(b) /\ SubSeq(b, 1, Len(a)) = a

SubscribersStay ==
    /\ Len(subs') >= Len(subs)
    /\ \A i \in 1..Len(subs) : Prefix(subs[i], subs'[i])
    /\ \A op \in {"Reset", "Start", "Stop", "Inc", "Dec"} :
          Called(op) => subs' = subs
    /\ TickBegins => bT' = Timer
    /\ TickStores =>
          \A i \in 1..Len(subs) :
              Len(subs[i]) < SubBuffer => subs'[i] = Append(subs[i], remaining)

\* C39: no step takes a subscriber away or takes values back from its
\* channel; Reset(), Start(), Stop(), Inc() and Dec() leave the subscribers
\* as they are; every tick reads the primitive that is current when it begins
\* and hands its value to every subscriber with room, whenever subscribed
C39_SubscribersSurviveReset == [][SubscribersStay]_vars

\* a subscriber from before a Reset() holds the value of a tick taken after
\* it, computed from the new primitive (which an Inc() has made differ)
C39_Witness ==
    /\ Len(log) = 3
    /\ log[1].op = "Subscribe" /\ log[2].op = "Reset" /\ log[3].op = "Inc"
    /\ Timer = 2
    /\ heap[1].Duration /= heap[2].Duration
    /\ subs = << <<heap[2].Duration>> >>

\* with the stop signal fired the loop does not get to a new open: it can
\* only still be at one it had passed the stop check for
NoNewOpenAfterStop == stopping /\ lpc' = "open" => lpc = "open"

\* the open has returned or failed and the stop signal has fired
PastOpenStopped == stopping /\ lpc \in {"backoff", "debounce"}

\* C40: once the stop signal has fired the loop begins one open at most, the
\* one it had passed its stop check for; from the failed open, and from the
\* close after reading, it gets to STOPPED, with no other open on the way
C40_OneOpenAfterStop ==
    /\ [](lateOpens <= 1)
    /\ [][NoNewOpenAfterStop]_vars
    /\ (PastOpenStopped ~> lpc = "stopped")

\* the loop began an open after the stop signal, got the pipe open, read to
\* the end of the stream, closed and returned
C40_Witness ==
    /\ lateOpens = 1
    /\ lpc = "stopped"
    /\ exitAt = "debounce"
====
